---- MODULE Spec2Model ----
(***************************************************************************)
(* A model of the keyword scraper: the job registry and the /start and     *)
(* /status handlers of app.py, the background run_job thread with its      *)
(* bounded ThreadPoolExecutor and worker_for_keyword tasks, the row        *)
(* shaping of scraper.scrape_osm_keyword and the dedupe_rows helper.       *)
(*                                                                         *)
(* Python strings are sequences of one-character strings, so that          *)
(* str.lower, str.strip, "in" and str() are computed, not assumed.         *)
(* Python numbers are tagged: <<"int", n>> is the int n, <<"float", t>>    *)
(* is the float t/10, and None is <<"none">>.                              *)
(***************************************************************************)
EXTENDS Integers, Sequences, FiniteSets, TLC

\* ------------------------------------------------------------------ bounds

\* longest row list handed to dedupe_rows in the DedupeSpec harness
MaxRows == 3

\* most raw elements the Overpass service answers one query with
MaxElements == 2

\* ------------------------------------------------------------ Python values

None == <<"none">>

PyInt(n) == <<"int", n>>

\* the float t/10, e.g. PyFloat(125) is 12.5
PyFloat(t) == <<"float", t>>

\* Python truthiness of a number or None: None, 0 and 0.0 are falsy
Truthy(v) == v # None /\ v[2] # 0

\* Python truthiness of a string
NonEmpty(s) == Len(s) > 0

\* a or b, for numbers
OrElse(a, b) == IF Truthy(a) THEN a ELSE b

\* a or b, for strings
OrStr(a, b) == IF NonEmpty(a) THEN a ELSE b

UpperChars == <<"A","B","C","D","E","F","G","H","I","J","K","L","M",
                "N","O","P","Q","R","S","T","U","V","W","X","Y","Z">>

LowerChars == <<"a","b","c","d","e","f","g","h","i","j","k","l","m",
                "n","o","p","q","r","s","t","u","v","w","x","y","z">>

LowerChar(c) ==
    IF \E i \in 1..26 : UpperChars[i] = c
    THEN LowerChars[CHOOSE i \in 1..26 : UpperChars[i] = c]
    ELSE c

\* str.lower()
Lower(s) == [i \in 1..Len(s) |-> LowerChar(s[i])]

Whitespace == {" ", "\t", "\n"}

\* str.strip(): drop the leading and the trailing whitespace
Strip(s) ==
    LET keep == {i \in 1..Len(s) : s[i] \notin Whitespace}
    IN  IF keep = {} THEN <<>>
        ELSE LET lo == CHOOSE i \in keep : \A j \in keep : i <= j
                 hi == CHOOSE i \in keep : \A j \in keep : j <= i
             IN  SubSeq(s, lo, hi)

\* sub in s
Contains(s, sub) ==
    \E i \in 0..(Len(s) - Len(sub)) : SubSeq(s, i + 1, i + Len(sub)) = sub

Digits == <<"0","1","2","3","4","5","6","7","8","9">>

RECURSIVE StrNat(_)
StrNat(n) == IF n < 10 THEN <<Digits[n + 1]>>
             ELSE StrNat(n \div 10) \o <<Digits[(n % 10) + 1]>>

\* str(v) for None, an int or a float
Str(v) ==
    IF v = None THEN <<"N","o","n","e">>
    ELSE LET n    == v[2]
             sign == IF n < 0 THEN <<"-">> ELSE <<>>
             a    == IF n < 0 THEN 0 - n ELSE n
         IN  IF v[1] = "int" THEN sign \o StrNat(a)
             ELSE sign \o StrNat(a \div 10) \o <<".">> \o StrNat(a % 10)

\* dict.get(key, default) on a row
Get(r, key, default) == IF key \in DOMAIN r THEN r[key] ELSE default

\* --------------------------------------------------------------- dedupe_rows

\* the key of line 34
DedupeKey(r) ==
    << Lower(Strip(Get(r, "name", <<>>))),
       Str(Get(r, "lat", None)),
       Str(Get(r, "lng", None)) >>

\* the loop of lines 33-38, from row i on
RECURSIVE DedupeLoop(_, _, _, _)
DedupeLoop(rows, i, seen, out) ==
    IF i > Len(rows) THEN out
    ELSE LET key == DedupeKey(rows[i])
         IN  IF key \in seen
             THEN DedupeLoop(rows, i + 1, seen, out)
             ELSE DedupeLoop(rows, i + 1, seen \cup {key}, Append(out, rows[i]))

\* a dedupe that prepends (out.insert(0, r)) instead of appending
RECURSIVE DedupeLoopFront(_, _, _, _)
DedupeLoopFront(rows, i, seen, out) ==
    IF i > Len(rows) THEN out
    ELSE LET key == DedupeKey(rows[i])
         IN  IF key \in seen
             THEN DedupeLoopFront(rows, i + 1, seen, out)
             ELSE DedupeLoopFront(rows, i + 1, seen \cup {key}, <<rows[i]>> \o out)

dedupe_rows_front(rows) == DedupeLoopFront(rows, 1, {}, <<>>)

\* a dedupe whose key compares the raw name (no strip, no lower)
DedupeKeyRaw(r) ==
    << Get(r, "name", <<>>), Str(Get(r, "lat", None)), Str(Get(r, "lng", None)) >>

RECURSIVE DedupeLoopRaw(_, _, _, _)
DedupeLoopRaw(rows, i, seen, out) ==
    IF i > Len(rows) THEN out
    ELSE LET key == DedupeKeyRaw(rows[i])
         IN  IF key \in seen
             THEN DedupeLoopRaw(rows, i + 1, seen, out)
             ELSE DedupeLoopRaw(rows, i + 1, seen \cup {key}, Append(out, rows[i]))

dedupe_rows_raw(rows) == DedupeLoopRaw(rows, 1, {}, <<>>)

dedupe_rows(rows) == DedupeLoop(rows, 1, {}, <<>>)

\* ------------------------------------------------------- scrape_osm_keyword

\* a Python string literal, spelled out
S_Found == <<"F","o","u","n","d"," ">>

S_Querying == <<"Q","u","e","r","y","i","n","g"," ","O","v","e","r","p","a","s","s",".",".",".">>

S_OverpassReturned == <<"O","v","e","r","p","a","s","s"," ","r","e","t","u","r","n","e","d"," ">>

S_ColonSpace == <<":"," ">>

\* the tags of a raw element; an absent tag is the empty string, which every
\* tags.get(..) of lines 66-71 treats like a missing one
NoTags ==
    [ name |-> <<>>, addr_full |-> <<>>, addr_street |-> <<>>, addr_housenumber |-> <<>>,
      office |-> <<>>, amenity |-> <<>>, shop |-> <<>>, craft |-> <<>>,
      phone |-> <<>>, contact_phone |-> <<>>, website |-> <<>>, contact_website |-> <<>>,
      email |-> <<>>, contact_email |-> <<>> ]

\* a raw element: a node carries lat/lon, a way or relation carries center
Element(tags, lat, lon, clat, clon) ==
    [ tags |-> tags, lat |-> lat, lon |-> lon, center_lat |-> clat, center_lon |-> clon ]

\* lines 65-84: one raw element to one row
ShapeRow(el) ==
    LET tags == el.tags
    IN  [ name     |-> tags.name,
          address  |-> OrStr(tags.addr_full, OrStr(tags.addr_street, tags.addr_housenumber)),
          category |-> OrStr(tags.office, OrStr(tags.amenity, OrStr(tags.shop, OrStr(tags.craft, <<>>)))),
          phone    |-> OrStr(tags.phone, OrStr(tags.contact_phone, <<>>)),
          website  |-> OrStr(tags.website, OrStr(tags.contact_website, <<>>)),
          email    |-> OrStr(tags.email, OrStr(tags.contact_email, <<>>)),
          lat      |-> OrElse(el.lat, el.center_lat),
          lng      |-> OrElse(el.lon, el.center_lon) ]

\* elements[:max_results], negative max_results included
SliceTo(elements, max_results) ==
    LET n == Len(elements)
        m == IF max_results >= 0
             THEN (IF max_results < n THEN max_results ELSE n)
             ELSE (IF n + max_results > 0 THEN n + max_results ELSE 0)
    IN  SubSeq(elements, 1, m)

\* what requests.get gives: an HTTP response, or an exception of the library
HttpResponse(status_code, text, elements) ==
    [ kind |-> "response", status_code |-> status_code, text |-> text, elements |-> elements ]

RequestException(msg) == [ kind |-> "exception", msg |-> msg ]

\* the outcome of a call: a returned value, or a raised exception with its str(e)
Returned(v) == [ raised |-> FALSE, value |-> v, msg |-> <<>> ]

Raised(msg) == [ raised |-> TRUE, value |-> <<>>, msg |-> msg ]

\* the outcome slot of a future that has not completed
NoOutcome == [ raised |-> FALSE, value |-> <<>>, msg |-> <<>> ]

\* scrape_osm_keyword (lines 28-90) on the outcome of the request of line 50
scrape_osm_keyword(outcome, max_results) ==
    IF outcome.kind = "exception" THEN Raised(outcome.msg)
    ELSE IF outcome.status_code # 200
    THEN Raised(S_OverpassReturned \o StrNat(outcome.status_code)
                \o S_ColonSpace \o SliceTo(outcome.text, 200))
    ELSE IF outcome.elements = <<>> THEN Returned(<<>>)
    ELSE LET els == SliceTo(outcome.elements, max_results)
         IN  Returned([i \in 1..Len(els) |-> ShapeRow(els[i])])

\* what the fetch of line 100 gives: a page, with the EMAIL_RE matches of its text
\* and the mailto: targets of its anchors that match EMAIL_RE, or an exception
Page(status_code, emails, mailtos) ==
    [ kind |-> "response", status_code |-> status_code, emails |-> emails, mailtos |-> mailtos ]

\* scrape_website_email (lines 95-119): never raises, "" when nothing is found
scrape_website_email(fetch) ==
    IF fetch.kind = "exception" THEN <<>>
    ELSE IF fetch.status_code # 200 THEN <<>>
    ELSE IF fetch.emails # <<>> THEN Strip(fetch.emails[1])
    ELSE IF fetch.mailtos # <<>> THEN fetch.mailtos[1]
    ELSE <<>>

\* ------------------------------------------------------------------- data

N_Acme == <<"A","c","m","e">>

N_AcmePadded == <<" ","a","c","m","e"," ">>

N_Beta == <<"B","e","t","a">>

N_Gamma == <<"G","a","m","m","a">>

N_CityHospital == <<"C","i","t","y"," ","H","o","s","p","i","t","a","l"," ","I","T"," ",
                    "D","e","p","t">>

C_It == <<"i","t">>

C_Cafe == <<"c","a","f","e">>

U_Acme == <<"a","c","m","e",".","i","o">>

M_Acme == <<"h","i","@","a","c","m","e",".","i","o">>

M_Page == <<"m","e","@","x",".","i","o">>

\* a node named Acme, an office, with a website and no email
E_Acme ==
    Element([NoTags EXCEPT !.name = N_Acme, !.office = C_It, !.website = U_Acme],
            PyFloat(125), PyFloat(776), None, None)

\* the same place as a way: padded lower-case name, center coordinates, an email
\* and a website
E_AcmeWay ==
    Element([NoTags EXCEPT !.name = N_AcmePadded, !.amenity = C_Cafe, !.contact_email = M_Acme,
                           !.website = U_Acme],
            None, None, PyFloat(125), PyFloat(776))

\* another place
E_Beta ==
    Element([NoTags EXCEPT !.name = N_Beta, !.shop = C_Cafe, !.contact_website = U_Acme],
            PyInt(1), PyInt(2), None, None)

\* a place whose name holds a denylisted term
E_CityHospital ==
    Element([NoTags EXCEPT !.name = N_CityHospital, !.office = C_It],
            PyFloat(130), PyFloat(770), None, None)

\* a place with none of the office/amenity/shop/craft tags
E_Untagged ==
    Element([NoTags EXCEPT !.name = N_Gamma, !.phone = <<"1">>, !.website = U_Acme,
                           !.email = M_Acme, !.addr_street = <<"x">>],
            PyInt(0), PyInt(3), PyInt(1), PyInt(3))

KW_IT == <<"I","T">>

KW_it == <<"i","t">>

KW_cafe == <<"c","a","f","e">>

CityName == <<"P","u","n","e">>

E_Timeout == <<"t","i","m","e","d"," ","o","u","t">>

\* ------------------------------------------------------------------ state

VARIABLES
    jobs,              \* the registry of line 24: job_id -> job dict
    response,          \* the response of the request the last step handled
    rj_pc,             \* where the run_job thread is
    rj_args,           \* the arguments run_job was started with
    combined_results,  \* run_job's accumulator
    future_to_kw,      \* the keywords submitted so far, in order
    cur_kw,            \* the keyword of the future the loop of line 56 holds
    work_queue,        \* the executor's queue of work items not yet taken
    num_threads,       \* the executor's threads
    futures,           \* keyword -> its future
    wk,                \* keyword -> the locals of its worker_for_keyword call
    not_yielded,       \* as_completed: the futures not yet yielded
    pre_finished,      \* as_completed: those found finished on entry
    finished_futures,  \* as_completed: its waiter's list, in completion order
    extend_order,      \* the keywords in the order line 61 has taken their rows
    return_order,      \* the keywords in the order their workers have returned
    disk,              \* OUT_DIR: job_id -> the file written
    d_pc, d_rows, d_out,        \* the dedupe_rows harness
    s_pc, s_call, s_result      \* the scrape_osm_keyword harness

jobVars == << jobs, response, rj_pc, rj_args, combined_results, future_to_kw, cur_kw,
              work_queue, num_threads, futures, wk, not_yielded, pre_finished,
              finished_futures, extend_order, return_order, disk >>

dedupeVars == << d_pc, d_rows, d_out >>

scrapeVars == << s_pc, s_call, s_result >>

vars == << jobVars, dedupeVars, scrapeVars >>

EXECUTOR_WORKERS == 5

max_keywords_allowed == 500

NoResponse == [ code |-> 0 ]

EmptyDict == << >>

\* d[key] = value on a dict
DictSet(d, key, value) == [x \in DOMAIN d \cup {key} |-> IF x = key THEN value ELSE d[x]]

\* the set of the elements of a list
Range(seq) == {seq[i] : i \in 1..Len(seq)}

\* the uuid4 of line 162
JobIds == {"job-1"}

\* a job id no /start ever returned
UnknownIds == {"job-0"}

\* no run_job thread yet
NoArgs == [ job_id |-> "", keywords |-> <<>>, city |-> <<>>, max_per_keyword |-> 0,
            try_website_emails |-> FALSE ]

InitJob ==
    /\ jobs = EmptyDict
    /\ response = NoResponse
    /\ rj_pc = "idle"
    /\ rj_args = NoArgs
    /\ combined_results = <<>>
    /\ future_to_kw = <<>>
    /\ cur_kw = <<>>
    /\ work_queue = <<>>
    /\ num_threads = 0
    /\ futures = EmptyDict
    /\ wk = EmptyDict
    /\ not_yielded = {}
    /\ pre_finished = {}
    /\ finished_futures = <<>>
    /\ extend_order = <<>>
    /\ return_order = <<>>
    /\ disk = EmptyDict

InitDedupe == d_pc = "off" /\ d_rows = <<>> /\ d_out = <<>>

InitScrape ==
    /\ s_pc = "off"
    /\ s_call = [ outcome |-> RequestException(<<>>), max_results |-> 0 ]
    /\ s_result = NoOutcome

Init == InitJob /\ InitDedupe /\ InitScrape

\* --------------------------------------------------------------- /start

\* a loop body that compares the keywords as they are written
UniqStepExact(st, k) ==
    LET kl == k
    IN  IF kl \in st.seen THEN st
        ELSE [ seen |-> st.seen \cup {kl}, uniq_keywords |-> Append(st.uniq_keywords, k) ]

\* lines 139-143, the body of the loop: k is kept unless k.lower() was seen
UniqStep(st, k) ==
    LET kl == Lower(k)
    IN  IF kl \in st.seen THEN st
        ELSE [ seen |-> st.seen \cup {kl}, uniq_keywords |-> Append(st.uniq_keywords, k) ]

\* line 138: the body run on keywords[lo..hi] in order, from the state st. The
\* range is run as two halves, and the first half's state is a value before the
\* second half is entered (seen is never empty after an iteration).
RECURSIVE UniqLoop(_, _, _, _)
UniqLoop(keywords, lo, hi, st) ==
    IF lo > hi THEN st
    ELSE IF lo = hi THEN UniqStep(st, keywords[lo])
    ELSE LET mid  == (lo + hi) \div 2
             half == UniqLoop(keywords, lo, mid, st)
         IN  IF half.seen # {} THEN UniqLoop(keywords, mid + 1, hi, half) ELSE half

\* lines 135-148
UniqKeywords(keywords) ==
    SliceTo(UniqLoop(keywords, 1, Len(keywords),
                     [ seen |-> {}, uniq_keywords |-> <<>> ]).uniq_keywords,
            max_keywords_allowed)

\* line 163
NewJob(uniq_keywords) ==
    [ status |-> "queued", keywords |-> EmptyDict, total |-> Len(uniq_keywords),
      completed |-> 0, file |-> None ]

\* a handler that registers the job before it looks at the city
startCityUnchecked(keywords, city_field, max_per_keyword, try_website_emails) ==
    LET uniq_keywords == UniqKeywords(keywords)
        city          == Strip(city_field)
    IN  IF uniq_keywords = <<>>
        THEN /\ response' = [ code |-> 400, error |-> "no keywords provided" ]
             /\ UNCHANGED << jobs, rj_pc, rj_args >>
        ELSE \E job_id \in JobIds \ DOMAIN jobs :
             /\ rj_pc = "idle"
             /\ jobs' = DictSet(jobs, job_id, NewJob(uniq_keywords))
             /\ rj_args' = [ job_id |-> job_id, keywords |-> uniq_keywords, city |-> city,
                             max_per_keyword |-> max_per_keyword,
                             try_website_emails |-> try_website_emails ]
             /\ IF city = <<>>
                THEN /\ response' = [ code |-> 400, error |-> "city required" ]
                     /\ UNCHANGED rj_pc
                ELSE /\ response' = [ code |-> 200, job_id |-> job_id ]
                     /\ rj_pc' = "L42"

\* start (lines 135-169) on the keywords of line 133 and the form's other fields:
\* a 400 before any job exists, or a new job and its run_job thread
start(keywords, city_field, max_per_keyword, try_website_emails) ==
    LET uniq_keywords == UniqKeywords(keywords)
        city          == Strip(city_field)
    IN  IF uniq_keywords = <<>>
        THEN /\ response' = [ code |-> 400, error |-> "no keywords provided" ]
             /\ UNCHANGED << jobs, rj_pc, rj_args >>
        ELSE IF city = <<>>
        THEN /\ response' = [ code |-> 400, error |-> "city required" ]
             /\ UNCHANGED << jobs, rj_pc, rj_args >>
        ELSE \E job_id \in JobIds \ DOMAIN jobs :
             /\ rj_pc = "idle"
             /\ jobs' = DictSet(jobs, job_id, NewJob(uniq_keywords))
             /\ rj_pc' = "L42"
             /\ rj_args' = [ job_id |-> job_id, keywords |-> uniq_keywords, city |-> city,
                             max_per_keyword |-> max_per_keyword,
                             try_website_emails |-> try_website_emails ]
             /\ response' = [ code |-> 200, job_id |-> job_id ]

Start(keywords, city_field, max_per_keyword, try_website_emails) ==
    /\ start(keywords, city_field, max_per_keyword, try_website_emails)
    /\ UNCHANGED << combined_results, future_to_kw, cur_kw, work_queue, num_threads,
                    futures, wk, not_yielded, pre_finished, finished_futures, extend_order,
                    return_order, disk >>
    /\ UNCHANGED << dedupeVars, scrapeVars >>

\* --------------------------------------------------------------- /status

\* lines 177-183
StatusBody(job_id, job) ==
    [ code |-> 200, status |-> job.status, total |-> job.total, completed |-> job.completed,
      file |-> IF job.file # None THEN <<"download", job_id>> ELSE None,
      keywords |-> job.keywords ]

\* a handler that indexes the registry: an unknown id is a KeyError, a 500
statusIndexed(job_id) ==
    IF job_id \notin DOMAIN jobs
    THEN [ code |-> 500, status |-> "KeyError" ]
    ELSE StatusBody(job_id, jobs[job_id])

\* status (lines 171-184)
status(job_id) ==
    IF job_id \notin DOMAIN jobs
    THEN [ code |-> 404, status |-> "not-found" ]
    ELSE StatusBody(job_id, jobs[job_id])

Status(job_id) ==
    /\ response' = status(job_id)
    /\ UNCHANGED << jobs, rj_pc, rj_args, combined_results, future_to_kw, cur_kw,
                    work_queue, num_threads, futures, wk, not_yielded, pre_finished,
                    finished_futures, extend_order, return_order, disk >>
    /\ UNCHANGED << dedupeVars, scrapeVars >>

\* -------------------------------------------------------------- the executor

Running == {k \in DOMAIN futures : futures[k].state = "RUNNING"}

Finished == {k \in DOMAIN futures : futures[k].state = "FINISHED"}

\* as_completed has installed its waiter: run_job is inside the loop of line 56
WaiterInstalled == rj_pc \in {"L56", "L59", "L65", "L68"}

\* an executor that adds a thread for every work item
AdjustThreadCountUnbounded(n, max_workers) == n + 1

\* ThreadPoolExecutor.submit on an executor of max_workers threads (line 49):
\* the work item is queued and a thread is added while there are fewer
AdjustThreadCount(n, max_workers) == IF n < max_workers THEN n + 1 ELSE n

\* a thread of the executor is free to take a work item
ThreadFree == Cardinality(Running) < num_threads

\* the future of keyword k completes with an outcome; a waiter hears of it (a
\* worker that returns is noted in return_order)
SetFuture(k, outcome) ==
    /\ futures' = [futures EXCEPT ![k] = [ state |-> "FINISHED", outcome |-> outcome ]]
    /\ finished_futures' = IF WaiterInstalled THEN Append(finished_futures, k)
                           ELSE finished_futures
    /\ return_order' = IF outcome.raised THEN return_order ELSE Append(return_order, k)

\* ------------------------------------------------------------------ run_job

JobId == rj_args.job_id

QueuedStatus == [ count |-> 0, status |-> "queued", last_msg |-> <<>> ]

rjFrame == UNCHANGED << rj_args, return_order, dedupeVars, scrapeVars >>

\* line 42
RunJob42 ==
    /\ rj_pc = "L42"
    /\ jobs' = [jobs EXCEPT ![JobId].status = "running"]
    /\ rj_pc' = "L43"
    /\ response' = NoResponse
    /\ UNCHANGED << combined_results, future_to_kw, cur_kw, work_queue, num_threads, futures,
                    wk, not_yielded, pre_finished, extend_order, finished_futures, disk >>
    /\ rjFrame

\* line 43
RunJob43 ==
    /\ rj_pc = "L43"
    /\ jobs' = [jobs EXCEPT ![JobId].total = Len(rj_args.keywords)]
    /\ rj_pc' = "L44"
    /\ response' = NoResponse
    /\ UNCHANGED << combined_results, future_to_kw, cur_kw, work_queue, num_threads, futures,
                    wk, not_yielded, pre_finished, extend_order, finished_futures, disk >>
    /\ rjFrame

\* line 44
RunJob44 ==
    /\ rj_pc = "L44"
    /\ jobs' = [jobs EXCEPT ![JobId].completed = 0]
    /\ rj_pc' = "L45"
    /\ response' = NoResponse
    /\ UNCHANGED << combined_results, future_to_kw, cur_kw, work_queue, num_threads, futures,
                    wk, not_yielded, pre_finished, extend_order, finished_futures, disk >>
    /\ rjFrame

\* lines 45-50
RunJob45 ==
    /\ rj_pc = "L45"
    /\ jobs' = [jobs EXCEPT ![JobId].keywords =
                    [k \in Range(rj_args.keywords) |-> QueuedStatus]]
    /\ combined_results' = <<>>
    /\ future_to_kw' = <<>>
    /\ rj_pc' = "L53"
    /\ response' = NoResponse
    /\ UNCHANGED << cur_kw, work_queue, num_threads, futures,
                    wk, not_yielded, pre_finished, extend_order, finished_futures, disk >>
    /\ rjFrame

\* lines 51-54, one turn of the loop: submit the worker of the next keyword
RunJobSubmit ==
    /\ rj_pc = "L53"
    /\ Len(future_to_kw) < Len(rj_args.keywords)
    /\ LET kw == rj_args.keywords[Len(future_to_kw) + 1]
       IN  /\ work_queue' = Append(work_queue, kw)
           /\ futures' = DictSet(futures, kw, [ state |-> "PENDING", outcome |-> NoOutcome ])
           /\ wk' = DictSet(wk, kw, [ pc |-> "queued", rows |-> <<>>, email_calls |-> <<>> ])
           /\ future_to_kw' = Append(future_to_kw, kw)
    /\ num_threads' = AdjustThreadCount(num_threads, EXECUTOR_WORKERS)
    /\ response' = NoResponse
    /\ UNCHANGED << jobs, rj_pc, combined_results, cur_kw, not_yielded, pre_finished, extend_order,
                    finished_futures, disk >>
    /\ rjFrame

\* line 56, entering as_completed: the futures already finished are set aside,
\* the others get the waiter
RunJobAsCompleted ==
    /\ rj_pc = "L53"
    /\ Len(future_to_kw) = Len(rj_args.keywords)
    /\ not_yielded' = Range(future_to_kw)
    /\ pre_finished' = Finished
    /\ finished_futures' = <<>>
    /\ rj_pc' = "L56"
    /\ response' = NoResponse
    /\ UNCHANGED << jobs, combined_results, future_to_kw, cur_kw, work_queue, num_threads,
                    futures, wk, extend_order, disk >>
    /\ rjFrame

\* line 56, the next future: one of those finished on entry, in any order, then
\* the others in their order of completion
RunJobNext ==
    /\ rj_pc = "L56"
    /\ not_yielded # {}
    /\ IF pre_finished # {}
       THEN \E k \in pre_finished :
                /\ cur_kw' = k
                /\ pre_finished' = pre_finished \ {k}
                /\ not_yielded' = not_yielded \ {k}
                /\ UNCHANGED finished_futures
       ELSE /\ finished_futures # <<>>
            /\ cur_kw' = Head(finished_futures)
            /\ finished_futures' = Tail(finished_futures)
            /\ not_yielded' = not_yielded \ {Head(finished_futures)}
            /\ UNCHANGED pre_finished
    /\ rj_pc' = "L59"
    /\ response' = NoResponse
    /\ UNCHANGED << jobs, combined_results, future_to_kw, work_queue, num_threads,
                    futures, wk, extend_order, disk >>
    /\ rjFrame

\* a loop body without the except of line 63: the exception leaves run_job
RunJob59Uncaught ==
    /\ rj_pc = "L59"
    /\ LET outcome == futures[cur_kw].outcome
       IN  IF ~outcome.raised
           THEN /\ combined_results' = combined_results \o outcome.value
                /\ extend_order' = Append(extend_order, cur_kw)
                /\ jobs' = [jobs EXCEPT ![JobId].keywords[cur_kw].status = "done"]
                /\ rj_pc' = "L68"
           ELSE /\ rj_pc' = "raised"
                /\ UNCHANGED << jobs, combined_results, extend_order >>
    /\ response' = NoResponse
    /\ UNCHANGED << future_to_kw, cur_kw, work_queue, num_threads, futures, wk,
                    not_yielded, pre_finished, finished_futures, disk >>
    /\ rjFrame

\* a loop body that counts a keyword inside the try as well as at line 68
RunJob59Counting ==
    /\ rj_pc = "L59"
    /\ LET outcome == futures[cur_kw].outcome
       IN  IF ~outcome.raised
           THEN /\ combined_results' = combined_results \o outcome.value
                /\ extend_order' = Append(extend_order, cur_kw)
                /\ jobs' = [jobs EXCEPT ![JobId].keywords[cur_kw].status = "done",
                                        ![JobId].completed = @ + 1]
                /\ rj_pc' = "L68"
           ELSE /\ jobs' = [jobs EXCEPT ![JobId].keywords[cur_kw].status = "failed"]
                /\ rj_pc' = "L65"
                /\ UNCHANGED << combined_results, extend_order >>
    /\ response' = NoResponse
    /\ UNCHANGED << future_to_kw, cur_kw, work_queue, num_threads, futures, wk,
                    not_yielded, pre_finished, finished_futures, disk >>
    /\ rjFrame

\* a loop body that takes an empty result for a failure
RunJob59EmptyFails ==
    /\ rj_pc = "L59"
    /\ LET outcome == futures[cur_kw].outcome
       IN  IF ~outcome.raised /\ outcome.value # <<>>
           THEN /\ combined_results' = combined_results \o outcome.value
                /\ extend_order' = Append(extend_order, cur_kw)
                /\ jobs' = [jobs EXCEPT ![JobId].keywords[cur_kw].status = "done"]
                /\ rj_pc' = "L68"
           ELSE /\ jobs' = [jobs EXCEPT ![JobId].keywords[cur_kw].status = "failed"]
                /\ rj_pc' = "L65"
                /\ UNCHANGED << combined_results, extend_order >>
    /\ response' = NoResponse
    /\ UNCHANGED << future_to_kw, cur_kw, work_queue, num_threads, futures, wk,
                    not_yielded, pre_finished, finished_futures, disk >>
    /\ rjFrame

\* lines 58-64: future.result() returns (lines 60-62) or raises (line 64)
RunJob59 ==
    /\ rj_pc = "L59"
    /\ LET outcome == futures[cur_kw].outcome
       IN  IF ~outcome.raised
           THEN /\ combined_results' = combined_results \o outcome.value
                /\ extend_order' = Append(extend_order, cur_kw)
                /\ jobs' = [jobs EXCEPT ![JobId].keywords[cur_kw].status = "done"]
                /\ rj_pc' = "L68"
           ELSE /\ jobs' = [jobs EXCEPT ![JobId].keywords[cur_kw].status = "failed"]
                /\ rj_pc' = "L65"
                /\ UNCHANGED << combined_results, extend_order >>
    /\ response' = NoResponse
    /\ UNCHANGED << future_to_kw, cur_kw, work_queue, num_threads, futures, wk,
                    not_yielded, pre_finished, finished_futures, disk >>
    /\ rjFrame

\* line 65
RunJob65 ==
    /\ rj_pc = "L65"
    /\ jobs' = [jobs EXCEPT ![JobId].keywords[cur_kw].last_msg = futures[cur_kw].outcome.msg]
    /\ rj_pc' = "L68"
    /\ response' = NoResponse
    /\ UNCHANGED << combined_results, future_to_kw, cur_kw, work_queue, num_threads, futures,
                    wk, not_yielded, pre_finished, extend_order, finished_futures, disk >>
    /\ rjFrame

\* a loop body that counts a completion only if the keyword ended done
RunJob68DoneOnly ==
    /\ rj_pc = "L68"
    /\ jobs' = [jobs EXCEPT ![JobId].completed =
                    IF jobs[JobId].keywords[cur_kw].status = "done" THEN @ + 1 ELSE @]
    /\ rj_pc' = "L56"
    /\ response' = NoResponse
    /\ UNCHANGED << combined_results, future_to_kw, cur_kw, work_queue, num_threads, futures,
                    wk, not_yielded, pre_finished, extend_order, finished_futures, disk >>
    /\ rjFrame

\* line 68
RunJob68 ==
    /\ rj_pc = "L68"
    /\ jobs' = [jobs EXCEPT ![JobId].completed = @ + 1]
    /\ rj_pc' = "L56"
    /\ response' = NoResponse
    /\ UNCHANGED << combined_results, future_to_kw, cur_kw, work_queue, num_threads, futures,
                    wk, not_yielded, pre_finished, extend_order, finished_futures, disk >>
    /\ rjFrame

\* a run_job that sets the overall state before it writes the artifact
RunJob71Finishing ==
    /\ rj_pc = "L56"
    /\ not_yielded = {}
    /\ combined_results' = dedupe_rows(combined_results)
    /\ jobs' = [jobs EXCEPT ![JobId].status = "finished"]
    /\ rj_pc' = "L74"
    /\ response' = NoResponse
    /\ UNCHANGED << future_to_kw, cur_kw, work_queue, num_threads, futures,
                    wk, not_yielded, pre_finished, extend_order, finished_futures, disk >>
    /\ rjFrame

\* the loop of line 56 is exhausted and the with block of line 49 is left (every
\* worker has returned, so the executor's shutdown has nothing to wait for);
\* line 71
RunJob71 ==
    /\ rj_pc = "L56"
    /\ not_yielded = {}
    /\ combined_results' = dedupe_rows(combined_results)
    /\ rj_pc' = "L74"
    /\ response' = NoResponse
    /\ UNCHANGED << jobs, future_to_kw, cur_kw, work_queue, num_threads, futures,
                    wk, not_yielded, pre_finished, extend_order, finished_futures, disk >>
    /\ rjFrame

\* line 73
CsvKeys == {"name", "address", "category", "phone", "email", "website", "lat", "lng", "keyword"}

\* line 78: the dict handed to writer.writerow
CsvRow(r) == [k \in CsvKeys |-> Get(r, k, <<>>)]

\* line 74: open(out_file, "w") creates or truncates the file, or raises
RunJob74(opened) ==
    /\ rj_pc = "L74"
    /\ IF opened
       THEN /\ disk' = DictSet(disk, JobId, [ rows |-> <<>>, complete |-> FALSE ])
            /\ rj_pc' = "L75"
       ELSE /\ rj_pc' = "raised"
            /\ UNCHANGED disk
    /\ response' = NoResponse
    /\ UNCHANGED << jobs, combined_results, future_to_kw, cur_kw, work_queue, num_threads,
                    futures, wk, not_yielded, pre_finished, extend_order, finished_futures >>
    /\ rjFrame

\* lines 75-78: the header and every row are written and the file is closed, or
\* a write raises when `written` rows are in the file
RunJob75(ok, written) ==
    /\ rj_pc = "L75"
    /\ written \in 0..Len(combined_results)
    /\ IF ok
       THEN /\ written = Len(combined_results)
            /\ disk' = [disk EXCEPT ![JobId] =
                    [ rows |-> [i \in 1..Len(combined_results) |-> CsvRow(combined_results[i])],
                      complete |-> TRUE ]]
            /\ rj_pc' = "L80"
       ELSE /\ disk' = [disk EXCEPT ![JobId] =
                    [ rows |-> [i \in 1..written |-> CsvRow(combined_results[i])],
                      complete |-> FALSE ]]
            /\ rj_pc' = "raised"
    /\ response' = NoResponse
    /\ UNCHANGED << jobs, combined_results, future_to_kw, cur_kw, work_queue, num_threads,
                    futures, wk, not_yielded, pre_finished, extend_order, finished_futures >>
    /\ rjFrame

\* line 80
RunJob80 ==
    /\ rj_pc = "L80"
    /\ jobs' = [jobs EXCEPT ![JobId].file = <<"output", JobId>>]
    /\ rj_pc' = "L81"
    /\ response' = NoResponse
    /\ UNCHANGED << combined_results, future_to_kw, cur_kw, work_queue, num_threads, futures,
                    wk, not_yielded, pre_finished, extend_order, finished_futures, disk >>
    /\ rjFrame

\* lines 81-82
RunJob81 ==
    /\ rj_pc = "L81"
    /\ jobs' = [jobs EXCEPT ![JobId].status = "finished"]
    /\ rj_pc' = "returned"
    /\ response' = NoResponse
    /\ UNCHANGED << combined_results, future_to_kw, cur_kw, work_queue, num_threads, futures,
                    wk, not_yielded, pre_finished, extend_order, finished_futures, disk >>
    /\ rjFrame

\* -------------------------------------------------------- worker_for_keyword

wkFrame == UNCHANGED << rj_pc, rj_args, combined_results, future_to_kw, cur_kw, num_threads,
                        not_yielded, pre_finished, extend_order, disk, dedupeVars, scrapeVars >>

\* a free thread of the executor takes the oldest work item and runs it up to
\* line 86
Worker86(k) ==
    /\ work_queue # <<>>
    /\ k = Head(work_queue)
    /\ ThreadFree
    /\ work_queue' = Tail(work_queue)
    /\ futures' = [futures EXCEPT ![k].state = "RUNNING"]
    /\ jobs' = [jobs EXCEPT ![JobId].keywords[k].status = "running"]
    /\ wk' = [wk EXCEPT ![k].pc = "L87"]
    /\ response' = NoResponse
    /\ UNCHANGED << finished_futures, return_order >>
    /\ wkFrame

\* line 87
Worker87(k) ==
    /\ k \in DOMAIN wk
    /\ wk[k].pc = "L87"
    /\ jobs' = [jobs EXCEPT ![JobId].keywords[k].last_msg = S_Querying]
    /\ wk' = [wk EXCEPT ![k].pc = "L89"]
    /\ response' = NoResponse
    /\ UNCHANGED << work_queue, futures, finished_futures, return_order >>
    /\ wkFrame

\* line 89 on what the request gives: the rows, or the exception leaves
\* worker_for_keyword and completes the future
Worker89(k, outcome) ==
    /\ k \in DOMAIN wk
    /\ wk[k].pc = "L89"
    /\ LET res == scrape_osm_keyword(outcome, rj_args.max_per_keyword)
       IN  IF res.raised
           THEN /\ wk' = [wk EXCEPT ![k].pc = "end"]
                /\ SetFuture(k, res)
           ELSE /\ wk' = [wk EXCEPT ![k].pc = "L92", ![k].rows = res.value]
                /\ UNCHANGED << futures, finished_futures, return_order >>
    /\ response' = NoResponse
    /\ UNCHANGED << jobs, work_queue >>
    /\ wkFrame

\* line 94: the row is one to look an email up for
NeedsEmail(r) == ~NonEmpty(Get(r, "email", <<>>)) /\ NonEmpty(Get(r, "website", <<>>))

\* a worker that looks emails up whether or not the job asks for it
Worker92Always(k, fetches) ==
    /\ k \in DOMAIN wk
    /\ wk[k].pc = "L92"
    /\ DOMAIN fetches = 1..Len(wk[k].rows)
    /\ LET rows   == wk[k].rows
           called == [i \in 1..Len(rows) |-> NeedsEmail(rows[i])]
           mailed == [i \in 1..Len(rows) |->
                          IF called[i]
                          THEN [rows[i] EXCEPT !.email = scrape_website_email(fetches[i])]
                          ELSE rows[i]]
       IN  wk' = [wk EXCEPT ![k].pc = "L105",
                           ![k].rows = [i \in 1..Len(rows) |-> DictSet(mailed[i], "keyword", k)],
                           ![k].email_calls = SelectSeq([i \in 1..Len(rows) |->
                                   IF called[i] THEN rows[i].website ELSE <<>>], NonEmpty)]
    /\ response' = NoResponse
    /\ UNCHANGED << jobs, work_queue, futures, finished_futures, return_order >>
    /\ wkFrame

\* lines 92-103 on what each website fetch gives: the email lookups, then the
\* keyword field
Worker92(k, fetches) ==
    /\ k \in DOMAIN wk
    /\ wk[k].pc = "L92"
    /\ DOMAIN fetches = 1..Len(wk[k].rows)
    /\ LET rows   == wk[k].rows
           called == [i \in 1..Len(rows) |->
                          rj_args.try_website_emails /\ NeedsEmail(rows[i])]
           mailed == [i \in 1..Len(rows) |->
                          IF called[i]
                          THEN [rows[i] EXCEPT !.email = scrape_website_email(fetches[i])]
                          ELSE rows[i]]
       IN  wk' = [wk EXCEPT ![k].pc = "L105",
                           ![k].rows = [i \in 1..Len(rows) |-> DictSet(mailed[i], "keyword", k)],
                           ![k].email_calls = SelectSeq([i \in 1..Len(rows) |->
                                   IF called[i] THEN rows[i].website ELSE <<>>], NonEmpty)]
    /\ response' = NoResponse
    /\ UNCHANGED << jobs, work_queue, futures, finished_futures, return_order >>
    /\ wkFrame

\* a worker that marks its keyword done itself, with the count
Worker105Done(k) ==
    /\ k \in DOMAIN wk
    /\ wk[k].pc = "L105"
    /\ jobs' = [jobs EXCEPT ![JobId].keywords[k].count = Len(wk[k].rows),
                            ![JobId].keywords[k].status = "done"]
    /\ wk' = [wk EXCEPT ![k].pc = "L106"]
    /\ response' = NoResponse
    /\ UNCHANGED << work_queue, futures, finished_futures, return_order >>
    /\ wkFrame

\* line 105
Worker105(k) ==
    /\ k \in DOMAIN wk
    /\ wk[k].pc = "L105"
    /\ jobs' = [jobs EXCEPT ![JobId].keywords[k].count = Len(wk[k].rows)]
    /\ wk' = [wk EXCEPT ![k].pc = "L106"]
    /\ response' = NoResponse
    /\ UNCHANGED << work_queue, futures, finished_futures, return_order >>
    /\ wkFrame

\* a worker that counts its own completion
Worker106Counting(k) ==
    /\ k \in DOMAIN wk
    /\ wk[k].pc = "L106"
    /\ jobs' = [jobs EXCEPT ![JobId].keywords[k].last_msg = S_Found \o StrNat(Len(wk[k].rows)),
                            ![JobId].completed = @ + 1]
    /\ wk' = [wk EXCEPT ![k].pc = "end"]
    /\ SetFuture(k, Returned(wk[k].rows))
    /\ response' = NoResponse
    /\ UNCHANGED work_queue
    /\ wkFrame

\* lines 106-107: the last message, and the rows complete the future
Worker106(k) ==
    /\ k \in DOMAIN wk
    /\ wk[k].pc = "L106"
    /\ jobs' = [jobs EXCEPT ![JobId].keywords[k].last_msg = S_Found \o StrNat(Len(wk[k].rows))]
    /\ wk' = [wk EXCEPT ![k].pc = "end"]
    /\ SetFuture(k, Returned(wk[k].rows))
    /\ response' = NoResponse
    /\ UNCHANGED work_queue
    /\ wkFrame

\* ------------------------------------------------------------------ inputs

\* the keyword lists of line 133 a client submits
Submissions == { <<>>, <<KW_IT>>, <<KW_IT, KW_it, KW_cafe>> }

\* the city fields a client submits
CityFields == { <<" ">>, <<" ">> \o CityName }

\* the values of max_per_keyword after line 154
MaxPerKeywordValues == { 1, 50 }

\* what the Overpass request of a worker may give
Outcomes ==
    { HttpResponse(200, <<>>, <<>>),
      HttpResponse(200, <<>>, <<E_Acme>>),
      HttpResponse(200, <<>>, <<E_AcmeWay, E_Beta>>),
      HttpResponse(429, <<"b","u","s","y">>, <<>>),
      RequestException(E_Timeout) }

\* what the fetch of a website may give
Fetches == { Page(200, <<M_Page>>, <<>>), RequestException(E_Timeout) }

Keywords == Range(future_to_kw)

\* ------------------------------------------------------------ specification

Next ==
    \/ \E keywords \in Submissions, city \in CityFields,
          m \in MaxPerKeywordValues, t \in BOOLEAN : Start(keywords, city, m, t)
    \/ \E job_id \in JobIds \cup UnknownIds : Status(job_id)
    \/ RunJob42 \/ RunJob43 \/ RunJob44 \/ RunJob45
    \/ RunJobSubmit \/ RunJobAsCompleted \/ RunJobNext
    \/ RunJob59 \/ RunJob65 \/ RunJob68 \/ RunJob71
    \/ \E opened \in BOOLEAN : RunJob74(opened)
    \/ \E ok \in BOOLEAN, written \in 0..Len(combined_results) : RunJob75(ok, written)
    \/ RunJob80 \/ RunJob81
    \/ \E k \in Keywords : Worker86(k)
    \/ \E k \in Keywords : Worker87(k)
    \/ \E k \in Keywords, outcome \in Outcomes : Worker89(k, outcome)
    \/ \E k \in Keywords : \E fetches \in [1..Len(wk[k].rows) -> Fetches] : Worker92(k, fetches)
    \/ \E k \in Keywords : Worker105(k)
    \/ \E k \in Keywords : Worker106(k)

Spec == Init /\ [][Next]_vars

\* ---------------------------------------------- a job of more keywords than threads

\* one keyword more than the executor has threads
PoolKeywords == [i \in 1..(EXECUTOR_WORKERS + 1) |-> <<"k", Digits[i + 1]>>]

\* the Overpass service is overloaded (the case line 48 is about): it refuses
PoolOutcomes == { HttpResponse(429, <<>>, <<>>) }

PoolNext ==
    \/ Start(PoolKeywords, CityName, 50, FALSE)
    \/ RunJob42 \/ RunJob43 \/ RunJob44 \/ RunJob45
    \/ RunJobSubmit \/ RunJobAsCompleted \/ RunJobNext
    \/ RunJob59 \/ RunJob65 \/ RunJob68 \/ RunJob71
    \/ RunJob74(TRUE)
    \/ RunJob75(TRUE, Len(combined_results))
    \/ RunJob80 \/ RunJob81
    \/ \E k \in Keywords : Worker86(k)
    \/ \E k \in Keywords : Worker87(k)
    \/ \E k \in Keywords, outcome \in PoolOutcomes : Worker89(k, outcome)

PoolSpec == Init /\ [][PoolNext]_vars

\* ------------------------------------------------- dedupe_rows on row lists

\* row r as worker_for_keyword returns it for keyword k (line 103)
Tagged(r, k) == DictSet(r, "keyword", k)

\* rows to draw the lists from: two keys met under several spellings and from
\* several keywords, an int and a float coordinate of equal value, a missing one
DedupePool ==
    { Tagged(ShapeRow(E_Acme), KW_IT),
      Tagged(ShapeRow(E_Acme), KW_cafe),
      Tagged(ShapeRow(E_AcmeWay), KW_cafe),
      Tagged(ShapeRow(E_Beta), KW_IT),
      Tagged([ShapeRow(E_Beta) EXCEPT !.lat = PyFloat(10)], KW_IT),
      Tagged([ShapeRow(E_Beta) EXCEPT !.lat = None], KW_cafe) }

RowLists == UNION { [1..n -> DedupePool] : n \in 0..MaxRows }

DedupeInit ==
    /\ InitJob /\ InitScrape
    /\ d_pc = "rows" /\ d_rows \in RowLists /\ d_out = <<>>

\* dedupe_rows(rows)
DedupeOnce ==
    /\ d_pc = "rows"
    /\ d_out' = <<dedupe_rows(d_rows)>>
    /\ d_pc' = "once"
    /\ UNCHANGED << d_rows, jobVars, scrapeVars >>

\* dedupe_rows(dedupe_rows(rows))
DedupeTwice ==
    /\ d_pc = "once"
    /\ d_out' = Append(d_out, dedupe_rows(d_out[1]))
    /\ d_pc' = "twice"
    /\ UNCHANGED << d_rows, jobVars, scrapeVars >>

DedupeNext == DedupeOnce \/ DedupeTwice

DedupeSpec == DedupeInit /\ [][DedupeNext]_vars

\* ------------------------------------------ scrape_osm_keyword on responses

ScrapeElements == { E_Acme, E_AcmeWay, E_Beta, E_CityHospital, E_Untagged }

ScrapeOutcomes ==
    { HttpResponse(200, <<>>, els) :
          els \in UNION { [1..n -> ScrapeElements] : n \in 0..MaxElements } }
    \cup { HttpResponse(429, <<"b","u","s","y">>, <<>>), RequestException(E_Timeout) }

ScrapeMaxResults == { 0 - 1, 0, 1, 50 }

ScrapeInit ==
    /\ InitJob /\ InitDedupe
    /\ s_pc = "call"
    /\ s_call \in [ outcome : ScrapeOutcomes, max_results : ScrapeMaxResults ]
    /\ s_result = NoOutcome

\* scrape_osm_keyword(keyword, city, max_results)
ScrapeCall ==
    /\ s_pc = "call"
    /\ s_result' = scrape_osm_keyword(s_call.outcome, s_call.max_results)
    /\ s_pc' = "done"
    /\ UNCHANGED << s_call, jobVars, dedupeVars >>

ScrapeNext == ScrapeCall

ScrapeSpec == ScrapeInit /\ [][ScrapeNext]_vars

\* ------------------------------------------------- the submissions of /start

KW_AcmeSoftware == <<"A","c","m","e"," ","S","o","f","t","w","a","r","e">>

KW_acme_software == <<"a","c","m","e"," ","s","o","f","t","w","a","r","e">>

KW_BetaCorp == <<"B","e","t","a"," ","C","o","r","p">>

\* one keyword more than line 146 allows, no two alike
ManyKeywords == [i \in 1..(max_keywords_allowed + 1) |-> <<"k">> \o StrNat(i)]

\* keyword lists as line 133 leaves them: stripped, none empty
SubmitKeywords ==
    { <<>>, <<KW_IT>>, <<KW_IT, KW_it, KW_cafe>>, <<KW_cafe, KW_IT, KW_cafe>>,
      <<KW_it, KW_cafe, KW_IT>>, <<KW_AcmeSoftware, KW_acme_software, KW_BetaCorp>> }

\* city fields: absent, white space, a padded name
SubmitCities == { <<>>, <<" ", " ">>, <<" ">> \o CityName \o <<" ">> }

\* the requests: keywords, city, max_per_keyword, try_website_emails
SubmitRequests ==
    (SubmitKeywords \X SubmitCities \X MaxPerKeywordValues \X BOOLEAN)
        \cup { <<ManyKeywords, CityName, 50, FALSE>> }

\* /start and /status, and run_job up to its line 45
SubmitNext ==
    \/ \E r \in SubmitRequests : Start(r[1], r[2], r[3], r[4])
    \/ \E job_id \in JobIds \cup UnknownIds : Status(job_id)
    \/ RunJob42 \/ RunJob43 \/ RunJob44 \/ RunJob45

SubmitSpec == Init /\ [][SubmitNext]_vars

\* ---------------------------------------------------------------- fairness

\* a step of the run_job thread or of a thread of its executor
ThreadStep ==
    \/ RunJob42 \/ RunJob43 \/ RunJob44 \/ RunJob45
    \/ RunJobSubmit \/ RunJobAsCompleted \/ RunJobNext
    \/ RunJob59 \/ RunJob65 \/ RunJob68 \/ RunJob71
    \/ \E opened \in BOOLEAN : RunJob74(opened)
    \/ \E ok \in BOOLEAN, written \in 0..Len(combined_results) : RunJob75(ok, written)
    \/ RunJob80 \/ RunJob81
    \/ \E k \in Keywords : Worker86(k)
    \/ \E k \in Keywords : Worker87(k)
    \/ \E k \in Keywords, outcome \in Outcomes : Worker89(k, outcome)
    \/ \E k \in Keywords : \E fetches \in [1..Len(wk[k].rows) -> Fetches] : Worker92(k, fetches)
    \/ \E k \in Keywords : Worker105(k)
    \/ \E k \in Keywords : Worker106(k)

\* the threads of the process keep being scheduled, and every request and
\* file operation returns or raises (lines 50, 74 and 100 carry timeouts)
FairSpec == Spec /\ WF_vars(ThreadStep)

\* ------------------------------------------------------------------ claims

Started == rj_pc # "idle"

TheJob == jobs[rj_args.job_id]

\* run_job is past the loop of line 56
LoopDone == rj_pc \in {"L74", "L75", "L80", "L81", "returned", "raised"}

\* the run_job thread has ended: it returned (line 82) or an exception left it
ThreadEnded == rj_pc \in {"returned", "raised"}

\* C1: when every worker has returned and run_job has ended, whether it returned
\* or the write of the artifact raised, completed = total = |K| and the overall
\* state is finished or failed, never running.
C1_EndsFinishedOrFailed ==
    (Started /\ ThreadEnded) =>
        /\ TheJob.completed = TheJob.total
        /\ TheJob.total = Len(rj_args.keywords)
        /\ TheJob.status \in {"finished", "failed"}

\* C2: when opening or writing the CSV raised, the overall state is failed and
\* the job's top-level error holds the cause; the state is not finished and no
\* artifact handle is attached.
C2_WriteFailureFailsJob ==
    (Started /\ rj_pc = "raised") =>
        /\ TheJob.status = "failed"
        /\ "error" \in DOMAIN TheJob
        /\ TheJob.file = None

\* the lookup of keyword k raised
LookupRaised(k) ==
    k \in DOMAIN futures /\ futures[k].state = "FINISHED" /\ futures[k].outcome.raised

\* the lookup of keyword k returned its rows
LookupReturned(k) ==
    k \in DOMAIN futures /\ futures[k].state = "FINISHED" /\ ~futures[k].outcome.raised

\* in every state: past the loop of line 56 every keyword's worker has run to its
\* end, a keyword whose lookup raised is failed with a non-empty last message and
\* the others are done; the overall state is never failed, and it is finished
\* when run_job has returned
C3_Tolerated ==
    Started =>
        /\ LoopDone => \A k \in Range(rj_args.keywords) :
                /\ LookupRaised(k) \/ LookupReturned(k)
                /\ LookupRaised(k) =>
                       /\ TheJob.keywords[k].status = "failed"
                       /\ NonEmpty(TheJob.keywords[k].last_msg)
                /\ LookupReturned(k) => TheJob.keywords[k].status = "done"
        /\ TheJob.status # "failed"
        /\ rj_pc = "returned" => TheJob.status = "finished"

SomeLookupRaised == \E k \in DOMAIN futures : LookupRaised(k)

\* C3: a keyword whose lookup raises ends failed with a non-empty last message,
\* the other keywords' workers still run to their end, and the job goes on to
\* the overall state finished unless the write of the artifact raises; the
\* overall state is never failed because of a keyword.
C3_KeywordFailureTolerated ==
    /\ []C3_Tolerated
    /\ SomeLookupRaised ~> (Started /\ (TheJob.status = "finished" \/ rj_pc = "raised"))

\* a failed keyword beside a done one in a finished job
C3_Witness ==
    /\ Started /\ TheJob.status = "finished"
    /\ \E k1, k2 \in DOMAIN TheJob.keywords :
           /\ LookupRaised(k1) /\ TheJob.keywords[k1].status = "failed"
           /\ LookupReturned(k2) /\ TheJob.keywords[k2].status = "done"

\* C4: the overall state is finished only if every requested keyword is done or
\* failed and the merged artifact has been written in full.
C4_FinishedOnlyAfterAll ==
    \A j \in DOMAIN jobs :
        jobs[j].status = "finished" =>
            /\ \A k \in Range(rj_args.keywords) :
                   /\ k \in DOMAIN jobs[j].keywords
                   /\ jobs[j].keywords[k].status \in {"done", "failed"}
            /\ j \in DOMAIN disk
            /\ disk[j].complete

\* a finished job of two keywords, its artifact holding a row
C4_Witness ==
    \E j \in DOMAIN jobs :
        /\ jobs[j].status = "finished"
        /\ jobs[j].total = 2
        /\ disk[j].complete /\ Len(disk[j].rows) > 0

\* C5: completed never decreases and 0 <= completed <= total, in every state
\* from the job's creation by start to the end of run_job.
C5_CompletedMonotoneBounded ==
    /\ [](\A j \in DOMAIN jobs : 0 <= jobs[j].completed /\ jobs[j].completed <= jobs[j].total)
    /\ [][\A j \in DOMAIN jobs : jobs'[j].completed >= jobs[j].completed]_vars

\* every keyword of a job of two counted
C5_Witness ==
    \E j \in DOMAIN jobs : jobs[j].completed = 2 /\ jobs[j].total = 2

\* the keywords whose worker has started and not yet returned
WorkersInFlight == {k \in DOMAIN wk : wk[k].pc \notin {"queued", "end"}}

\* C6: at most EXECUTOR_WORKERS keyword workers are running at once, and the
\* keywords beyond them stay queued until a worker has returned.
C6_AtMostFiveWorkers ==
    /\ Cardinality(WorkersInFlight) <= EXECUTOR_WORKERS
    /\ \A k \in DOMAIN wk :
           wk[k].pc = "queued" =>
               /\ k \in Range(work_queue)
               /\ futures[k].state = "PENDING"
               /\ TheJob.keywords[k].status = "queued"

\* five workers in flight and the sixth keyword waiting
C6_Witness ==
    /\ Cardinality(WorkersInFlight) = EXECUTOR_WORKERS
    /\ \E k \in DOMAIN wk : wk[k].pc = "queued" /\ TheJob.keywords[k].status = "queued"

\* C7: in every response of /status, the job's file is set only if the overall
\* state is finished.
C7_FileOnlyWhenFinished ==
    (response.code = 200 /\ "file" \in DOMAIN response) =>
        (response.file # None => response.status = "finished")

\* the key the claims speak of: the name lowercased and trimmed, str(lat), str(lng)
ClaimKey(r) == << Lower(Strip(r.name)), Str(r.lat), Str(r.lng) >>

\* the places of rows where a key occurs for the first time
FirstPlaces(rows) ==
    {i \in 1..Len(rows) : \A j \in 1..(i - 1) : ClaimKey(rows[j]) # ClaimKey(rows[i])}

\* the rows at their keys' first places, in order
FirstOccurrences(rows) ==
    LET firsts == FirstPlaces(rows)
    IN  [n \in 1..Cardinality(firsts) |->
            rows[CHOOSE i \in firsts : Cardinality({j \in firsts : j <= i}) = n]]

\* C8: dedupe_rows(R) holds no two rows of equal key, holds a row for every key
\* of R, and is the subsequence of R of each key's first occurrence, in order.
C8_DedupeKeepsFirstOfEachKey ==
    d_pc \in {"once", "twice"} =>
        LET out == d_out[1]
        IN  /\ \A i, j \in 1..Len(out) : i # j => ClaimKey(out[i]) # ClaimKey(out[j])
            /\ \A i \in 1..Len(d_rows) :
                   \E j \in 1..Len(out) : ClaimKey(out[j]) = ClaimKey(d_rows[i])
            /\ out = FirstOccurrences(d_rows)

\* a list whose second spelling of a name is dropped and whose later row is kept
C8_Witness ==
    /\ d_pc = "once"
    /\ Len(d_rows) = 3 /\ Len(d_out[1]) = 2
    /\ d_rows[1].name # d_rows[2].name
    /\ ClaimKey(d_rows[1]) = ClaimKey(d_rows[2])
    /\ d_out[1] = << d_rows[1], d_rows[3] >>

\* C9: dedupe_rows(dedupe_rows(R)) = dedupe_rows(R).
C9_DedupeIdempotent ==
    d_pc = "twice" => d_out[2] = d_out[1]

\* the second pass over a result that kept two rows and dropped one
C9_Witness ==
    /\ d_pc = "twice"
    /\ Len(d_rows) = 3 /\ Len(d_out[1]) = 2 /\ Len(d_out[2]) = 2

S_Hospital == <<"h","o","s","p","i","t","a","l">>

S_School == <<"s","c","h","o","o","l">>

S_Clinic == <<"c","l","i","n","i","c">>

\* the name holds a denylisted term, whatever the case
Denylisted(name) == \E term \in {S_Hospital, S_School, S_Clinic} : Contains(Lower(name), term)

\* C10: no row the lookup returns has an empty category or a denylisted name.
C10_RowsFiltered ==
    (s_pc = "done" /\ ~s_result.raised) =>
        \A i \in 1..Len(s_result.value) :
            /\ NonEmpty(s_result.value[i].category)
            /\ ~Denylisted(s_result.value[i].name)

S_FoundZero == <<"F","o","u","n","d"," ","0">>

\* the lookup of keyword k returned no row
LookupEmpty(k) == LookupReturned(k) /\ futures[k].outcome.value = <<>>

\* C11: a keyword whose lookup succeeds with zero rows has count 0 and the last
\* message "Found 0", is never failed, and is done once run_job is past its loop.
C11_ZeroRowsIsDone ==
    Started =>
        \A k \in DOMAIN futures :
            LookupEmpty(k) =>
                /\ TheJob.keywords[k].status # "failed"
                /\ TheJob.keywords[k].count = 0
                /\ TheJob.keywords[k].last_msg = S_FoundZero
                /\ LoopDone => TheJob.keywords[k].status = "done"

\* a finished job with a keyword of zero rows
C11_Witness ==
    /\ Started /\ TheJob.status = "finished"
    /\ \E k \in DOMAIN futures : LookupEmpty(k) /\ TheJob.keywords[k].status = "done"

\* a city field of nothing but white space
Blank(s) == \A i \in 1..Len(s) : s[i] \in Whitespace

\* a submission the claim calls invalid
Invalid(keywords, city_field) == keywords = <<>> \/ Blank(city_field)

\* a step in which a request handler answers (a thread's step clears the answer)
Answered == response' # NoResponse

\* C12: a submission with no keyword or a blank city is answered with an error in
\* the same step; the registry, the run_job thread and its arguments are untouched.
C12_InvalidSubmissionRejected ==
    [][ \A r \in SubmitRequests :
            (Answered /\ Invalid(r[1], r[2]) /\ Start(r[1], r[2], r[3], r[4])) =>
                /\ response'.code = 400
                /\ "error" \in DOMAIN response'
                /\ jobs' = jobs
                /\ rj_pc' = rj_pc
                /\ rj_args' = rj_args ]_vars

\* a rejected submission: no job and no thread
C12_Witness ==
    /\ response.code = 400
    /\ response.error = "city required"
    /\ jobs = EmptyDict
    /\ rj_pc = "idle"

\* the subsequence of seq[lo..hi] at the places in keep
RECURSIVE SubAt(_, _, _, _)
SubAt(seq, keep, lo, hi) ==
    IF lo > hi THEN <<>>
    ELSE IF lo = hi THEN (IF lo \in keep THEN <<seq[lo]>> ELSE <<>>)
    ELSE LET mid == (lo + hi) \div 2
         IN  SubAt(seq, keep, lo, mid) \o SubAt(seq, keep, mid + 1, hi)

\* the keywords deduplicated ignoring case, the first occurrence kept, in order
CaseDedupe(keywords) ==
    LET low == [i \in 1..Len(keywords) |-> Lower(keywords[i])]
    IN  SubAt(keywords, {i \in 1..Len(keywords) : \A j \in 1..(i - 1) : low[j] # low[i]},
              1, Len(keywords))

\* no two of the keywords are equal ignoring case
CaseDistinct(keywords) ==
    LET low == [i \in 1..Len(keywords) |-> Lower(keywords[i])]
    IN  \A i, j \in 1..Len(keywords) : i # j => low[i] # low[j]

\* a step of /start that registers a job
Registered == DOMAIN jobs' # DOMAIN jobs

\* C13 as stated: the job's keywords are the submitted ones deduplicated ignoring
\* case, first occurrences in order; total is their number; no two are equal
\* ignoring case.
C13_KeywordsCaseDeduped ==
    [][ Registered =>
          \A r \in SubmitRequests :
              Start(r[1], r[2], r[3], r[4]) =>
                  /\ rj_args'.keywords = CaseDedupe(r[1])
                  /\ jobs'[rj_args'.job_id].total = Len(CaseDedupe(r[1]))
                  /\ CaseDistinct(rj_args'.keywords) ]_vars

\* C13 amended: the job's keywords are the first max_keywords_allowed of the
\* submitted ones deduplicated ignoring case; total is their number; no two are
\* equal ignoring case.
C13_KeywordsCaseDedupedCapped ==
    [][ Registered =>
          \A r \in SubmitRequests :
              Start(r[1], r[2], r[3], r[4]) =>
                  LET kept == CaseDedupe(r[1])
                      n    == IF Len(kept) < 500 THEN Len(kept) ELSE 500
                  IN  /\ rj_args'.keywords = SubSeq(kept, 1, n)
                      /\ jobs'[rj_args'.job_id].total = n
                      /\ CaseDistinct(rj_args'.keywords) ]_vars

\* the job of the submission "Acme Software", "acme software", "Beta Corp"
C13_Witness ==
    /\ Started
    /\ rj_args.keywords = <<KW_AcmeSoftware, KW_BetaCorp>>
    /\ TheJob.total = 2

\* enrichment is on and the row has no email and has a website
WantsEmail(enabled, r) == enabled /\ r.email = <<>> /\ r.website # <<>>

\* C14: worker_for_keyword calls the email client for exactly the rows that have
\* no email and have a website, and only if enrichment is on: with it off there
\* is no call, and a row that has an email keeps it.
C14_EmailLookupOnlyWhenNeeded ==
    [][ \A k \in DOMAIN wk :
            (wk[k].pc = "L92" /\ wk'[k].pc = "L105") =>
                LET rows    == wk[k].rows
                    out     == wk'[k].rows
                    enabled == rj_args.try_website_emails
                    places  == {i \in 1..Len(rows) : WantsEmail(enabled, rows[i])}
                IN  /\ Len(out) = Len(rows)
                    /\ wk'[k].email_calls =
                           SubAt([i \in 1..Len(rows) |-> rows[i].website], places, 1, Len(rows))
                    /\ ~enabled => wk'[k].email_calls = <<>>
                    /\ \A i \in 1..Len(rows) :
                           rows[i].email # <<>> => out[i].email = rows[i].email ]_vars

\* enrichment is on: of two rows, the one with an email and a website keeps its
\* email, the one without an email is looked up
C14_Witness ==
    \E k \in DOMAIN wk :
        /\ wk[k].pc = "L105"
        /\ rj_args.try_website_emails
        /\ Len(wk[k].rows) = 2
        /\ wk[k].email_calls = <<U_Acme>>
        /\ \E i \in 1..2 : wk[k].rows[i].email = M_Acme /\ wk[k].rows[i].website # <<>>

\* C15: a status poll for an id that is not in the registry is answered
\* "not-found" (no exception, so no 500), whatever the registry holds, and the
\* registry is left as it was.
C15_UnknownIdNotFound ==
    [][ \A job_id \in JobIds \cup UnknownIds :
            (Answered /\ job_id \notin DOMAIN jobs /\ Status(job_id)) =>
                /\ response' = [ code |-> 404, status |-> "not-found" ]
                /\ jobs' = jobs ]_vars

\* an unknown id polled while the registry holds a running job
C15_Witness ==
    /\ response.code = 404
    /\ response.status = "not-found"
    /\ Started
    /\ TheJob.status = "running"

\* the keyword status map of job j before it is registered is empty
KeywordsOf(registry, j) == IF j \in DOMAIN registry THEN registry[j].keywords ELSE EmptyDict

\* C16: a keyword's status is queued when the status map gets its entry; it goes
\* from queued to running in the step in which the keyword's worker starts, and
\* from running to done (the worker returned) or failed (the worker raised) when
\* the worker's future has finished; no other change happens, so done and failed
\* are final and no entry is ever dropped.
C16_KeywordLifecycle ==
    [][ \A j \in DOMAIN jobs' :
            LET old == KeywordsOf(jobs, j)
                new == KeywordsOf(jobs', j)
            IN  /\ DOMAIN old \subseteq DOMAIN new
                /\ \A k \in DOMAIN new \ DOMAIN old : new[k].status = "queued"
                /\ \A k \in DOMAIN old :
                       new[k].status # old[k].status =>
                           \/ /\ old[k].status = "queued"
                              /\ new[k].status = "running"
                              /\ wk[k].pc = "queued"
                              /\ wk'[k].pc \notin {"queued", "end"}
                           \/ /\ old[k].status = "running"
                              /\ wk[k].pc = "end"
                              /\ \/ new[k].status = "done" /\ LookupReturned(k)
                                 \/ new[k].status = "failed" /\ LookupRaised(k) ]_vars

\* one keyword failed while another is still running
C16_Witness ==
    /\ Started
    /\ \E k1, k2 \in DOMAIN TheJob.keywords :
           /\ TheJob.keywords[k1].status = "failed"
           /\ TheJob.keywords[k2].status = "running"
           /\ WorkersInFlight = {k2}

\* the keywords of a job that are done or failed
Settled(job) == {k \in DOMAIN job.keywords : job.keywords[k].status \in {"done", "failed"}}

\* run_job has written a keyword's final status and not yet counted it
MidCompletion == rj_pc \in {"L65", "L68"}

\* C17: completed is the number of keywords done or failed, or one less while
\* run_job is between the status write and the increment of one completion; a
\* step raises completed by one or leaves it.
C17_CompletedCountsSettled ==
    /\ [](\A j \in DOMAIN jobs :
             LET n == Cardinality(Settled(jobs[j]))
             IN  /\ jobs[j].completed <= n
                 /\ n <= jobs[j].completed + 1
                 /\ ~MidCompletion => n = jobs[j].completed)
    /\ [][ \A j \in DOMAIN jobs :
              jobs'[j].completed \in {jobs[j].completed, jobs[j].completed + 1} ]_vars

\* the second completion is being processed: two keywords settled, one counted
C17_Witness ==
    /\ Started
    /\ MidCompletion
    /\ TheJob.completed = 1
    /\ Cardinality(Settled(TheJob)) = 2
    /\ \E k \in Settled(TheJob) : TheJob.keywords[k].status = "failed"

\* a step of the worker of keyword k
WorkerStepOf(k) == k \in DOMAIN wk /\ wk'[k].pc # wk[k].pc

\* C18: a step of a keyword's worker changes nothing of the registry but that
\* keyword's entry of its job's status map: the other entries, completed, total,
\* the overall state and file stay as they are. The workers submitted have
\* pairwise different keywords, so no two of them write the same entry.
C18_WorkerWritesOwnSlot ==
    /\ [][ \A k \in DOMAIN wk :
              WorkerStepOf(k) =>
                  /\ DOMAIN jobs' = DOMAIN jobs
                  /\ \A j \in DOMAIN jobs :
                         /\ jobs'[j].status = jobs[j].status
                         /\ jobs'[j].total = jobs[j].total
                         /\ jobs'[j].completed = jobs[j].completed
                         /\ jobs'[j].file = jobs[j].file
                         /\ DOMAIN jobs'[j].keywords = DOMAIN jobs[j].keywords
                         /\ \A k2 \in DOMAIN jobs[j].keywords :
                                (j # JobId \/ k2 # k) =>
                                    jobs'[j].keywords[k2] = jobs[j].keywords[k2] ]_vars
    /\ [](\A a, b \in 1..Len(future_to_kw) : a # b => future_to_kw[a] # future_to_kw[b])

\* two workers in flight at once, one of them past its write of count
C18_Witness ==
    /\ Cardinality(WorkersInFlight) = 2
    /\ \E k \in WorkersInFlight : wk[k].pc = "L106" /\ TheJob.keywords[k].count > 0

\* the answer of /status to a poll of a registered job
Polled == response.code = 200 /\ "keywords" \in DOMAIN response

\* C20: an answer of /status whose overall state is running holds a keyword
\* status map with as many entries as total, one for every requested keyword.
C20_RunningHasAllKeywords ==
    (Polled /\ response.status = "running") =>
        /\ Cardinality(DOMAIN response.keywords) = response.total
        /\ DOMAIN response.keywords = Range(rj_args.keywords)

\* the row lists of the keywords of order, one after the other
RECURSIVE ConcatRows(_, _)
ConcatRows(order, i) ==
    IF i > Len(order) THEN <<>>
    ELSE futures[order[i]].outcome.value \o ConcatRows(order, i + 1)

\* the artifact the claim expects of the row lists taken in an order
ArtifactOf(order) ==
    LET rows == FirstOccurrences(ConcatRows(order, 1))
    IN  [i \in 1..Len(rows) |-> CsvRow(rows[i])]

\* the job is finished and its artifact is written
ArtifactWritten ==
    /\ Started
    /\ TheJob.status = "finished"
    /\ rj_args.job_id \in DOMAIN disk
    /\ disk[rj_args.job_id].complete

\* C19: the artifact of a finished job holds the first occurrence of each key of
\* the row lists of the keywords that ended done, concatenated in the order in
\* which their workers returned; a failed keyword gives no row, and a place that
\* several keywords returned is there once, with the keyword of the worker that
\* returned it first.
C19_ArtifactInCompletionOrder ==
    ArtifactWritten =>
        /\ \A k \in DOMAIN TheJob.keywords :
               TheJob.keywords[k].status = "done" <=> \E i \in 1..Len(return_order) : return_order[i] = k
        /\ disk[rj_args.job_id].rows = ArtifactOf(return_order)

====
